---- MODULE Spec2Model ----
(***************************************************************************)
(* Model of the land-use pipeline of                                       *)
(* helioavila/industrial-service-landuse-intensity-map:                    *)
(*   src/industrial_service_landuse_map.py  (classification, map pipeline)  *)
(*   src/export_landuse_buildings.py        (OSM export pipeline)           *)
(*                                                                         *)
(* Python strings are tuples of one-character strings, so that str.lower   *)
(* and the substring test `k in txt` are computed, not assumed.            *)
(***************************************************************************)
EXTENDS Integers, Sequences, FiniteSets, TLC

VARIABLES prog, row, result,
          mpc, mi, all_gdfs, mfiles, msrc,
          epc, ei, all_landuse, all_buildings, efiles, esrc

vars == <<prog, row, result, mpc, mi, all_gdfs, mfiles, msrc,
          epc, ei, all_landuse, all_buildings, efiles, esrc>>

classifyVars == <<row, result>>
mapVars == <<mpc, mi, all_gdfs, mfiles, msrc>>
exportVars == <<epc, ei, all_landuse, all_buildings, efiles, esrc>>

(***************************************************************************)
(* Bounds                                                                  *)
(***************************************************************************)
\* number of attribute keys of a row handed to classify on its own
MaxAttrs == 2
\* number of land-use features one municipality's source holds
MaxRows == 2
\* number of building features one municipality's fetch returns
MaxBld == 1

(***************************************************************************)
(* Attribute values: the tagged variant the data source can deliver.       *)
(*   none  Python None          nan   float NaN / pd.NA                    *)
(*   str   a string             num   a number, s = its str() form         *)
(*   list  a list of scalars    geom  a shapely geometry, s = its type      *)
(***************************************************************************)
None == [t |-> "none", s |-> <<>>, xs |-> <<>>]
NaN == [t |-> "nan", s |-> <<>>, xs |-> <<>>]
Str(cs) == [t |-> "str", s |-> cs, xs |-> <<>>]
Num(cs) == [t |-> "num", s |-> cs, xs |-> <<>>]
List(elems) == [t |-> "list", s |-> <<>>, xs |-> elems]
Geom(type) == [t |-> "geom", s |-> type, xs |-> <<>>]

\* the sector / intensity of a feature no rule matched (Python None)
Absent == "None"
AbsentTier == 0

(***************************************************************************)
(* Configuration of the two scripts                                        *)
(***************************************************************************)
LANDUSE_URLS ==
  << <<"V","a","n","c","o","u","v","e","r",","," ","B","r","i","t","i","s","h"," ","C","o","l","u","m","b","i","a",","," ","C","a","n","a","d","a">>,
     <<"C","i","t","y"," ","o","f"," ","N","o","r","t","h"," ","V","a","n","c","o","u","v","e","r",","," ","B","r","i","t","i","s","h"," ","C","o","l","u","m","b","i","a",","," ","C","a","n","a","d","a">> >>

CITIES ==
  << <<"V","a","n","c","o","u","v","e","r",","," ","B","r","i","t","i","s","h"," ","C","o","l","u","m","b","i","a",","," ","C","a","n","a","d","a">>,
     <<"C","i","t","y"," ","o","f"," ","N","o","r","t","h"," ","V","a","n","c","o","u","v","e","r",","," ","B","r","i","t","i","s","h"," ","C","o","l","u","m","b","i","a",","," ","C","a","n","a","d","a">> >>

BLUE == [i \in 1..4 |-> CASE i = 1 -> "#E8F1FA" [] i = 2 -> "#A9C8EA"
                          [] i = 3 -> "#5B8FCB" [] i = 4 -> "#1F4E94"]
ORANGE == [i \in 1..4 |-> CASE i = 1 -> "#FCECDD" [] i = 2 -> "#F7B87A"
                            [] i = 3 -> "#E97A1C" [] i = 4 -> "#8C3D06"]
NEUTRAL == "#DDDDDD"

ATTR_FIELDS ==
  << "landuse", "building", "name", "amenity", "shop", "office", "industrial",
     "craft", "man_made", "operator", "brand", "description", "notes",
     "addr:housenumber", "addr:street" >>

\* RULES as written: a dict iterates in insertion order, tiers 4, 3, 2, 1
RULES ==
  [ industrial |->
      << <<4, << <<"r","e","f","i","n","e","r","y">>, <<"h","e","a","v","y">>, <<"s","m","e","l","t","e","r">>, <<"p","r","o","c","e","s","s","i","n","g">>,
                 <<"p","l","a","n","t">>, <<"s","t","e","e","l">> >> >>,
         <<3, << <<"l","o","g","i","s","t","i","c","s">>, <<"d","i","s","t","r","i","b","u","t","i","o","n">>, <<"w","a","r","e","h","o","u","s","e">>,
                 <<"u","t","i","l","i","t","y">>, <<"s","u","b","s","t","a","t","i","o","n">> >> >>,
         <<2, << <<"i","n","d","u","s","t","r","i","a","l">>, <<"l","i","g","h","t">>, <<"w","o","r","k","s","h","o","p">>, <<"m","a","n","u","f","a","c","t","u","r">>,
                 <<"d","e","p","o","t">> >> >>,
         <<1, << <<"s","t","o","r","a","g","e">>, <<"c","r","a","f","t">> >> >> >>,
    service |->
      << <<4, << <<"c","o","r","p","o","r","a","t","e"," ","h","q">>, <<"h","e","a","d","q","u","a","r","t","e","r","s">>, <<"c","a","m","p","u","s">> >> >>,
         <<3, << <<"i","t">>, <<"d","a","t","a"," ","c","e","n","t","e","r">>, <<"t","e","l","e","c","o","m">>, <<"t","e","c","h"," ","p","a","r","k">>,
                 <<"t","e","c","h","n","o","l","o","g","y"," ","p","a","r","k">> >> >>,
         <<2, << <<"o","f","f","i","c","e">>, <<"s","h","o","p">>, <<"s","c","h","o","o","l">>, <<"c","o","l","l","e","g","e">>,
                 <<"u","n","i","v","e","r","s","i","t","y">> >> >>,
         <<1, << <<"s","e","r","v","i","c","e">>, <<"c","l","i","n","i","c">>, <<"h","e","a","l","t","h">>, <<"h","a","i","r","d","r","e","s","s","e","r">>,
                 <<"c","a","f","e">>, <<"r","e","s","t","a","u","r","a","n","t">> >> >> >> ]

(***************************************************************************)
(* String primitives                                                       *)
(***************************************************************************)
Upper == <<"A","B","C","D","E","F","G","H","I","J","K","L","M","N","O","P","Q","R","S","T","U","V","W","X","Y","Z">>
LowerAlpha == <<"a","b","c","d","e","f","g","h","i","j","k","l","m","n","o","p","q","r","s","t","u","v","w","x","y","z">>

\* str.lower on one character
LowerChar(c) ==
  IF \E i \in 1..Len(Upper) : Upper[i] = c
    THEN LowerAlpha[CHOOSE i \in 1..Len(Upper) : Upper[i] = c]
    ELSE c

\* a sequence given as a function, as the tuple of its elements
Tup(f) == f \o <<>>

\* str.lower
Lower(cs) == Tup([i \in 1..Len(cs) |-> LowerChar(cs[i])])

\* the Python test `k in txt` on strings: k occurs as a contiguous substring
Contains(k, txt) ==
  \E i \in 1..(Len(txt) - Len(k) + 1) :
    \A j \in 1..Len(k) : txt[i + j - 1] = k[j]

\* any(k in txt for k in keys)
AnyIn(keys, txt) == \E n \in 1..Len(keys) : Contains(keys[n], txt)

\* " ".join(parts)
RECURSIVE Join(_)
Join(parts) ==
  IF Len(parts) = 0 THEN <<>>
  ELSE IF Len(parts) = 1 THEN parts[1]
  ELSE parts[1] \o <<" ">> \o Join(Tail(parts))

(***************************************************************************)
(* text_from_row: a row is the sequence of (key, value) pairs row.items()  *)
(* yields; keys may repeat (a Series index is not unique).                 *)
(***************************************************************************)
\* pd.isna on a scalar
IsNa(v) == v.t \in {"none", "nan"}

\* the parts one (key, value) item appends
PartsOf(key, val) ==
  IF key = "geometry" THEN <<>>
  ELSE IF val.t = "none" THEN <<>>
  ELSE IF val.t = "nan" THEN <<>>
  ELSE IF val.t = "list"
    THEN IF \A n \in 1..Len(val.xs) : IsNa(val.xs[n])
           THEN <<>>
           ELSE LET kept == SelectSeq(val.xs, LAMBDA x : ~IsNa(x))
                IN  Tup([n \in 1..Len(kept) |-> kept[n].s])
  ELSE <<val.s>>

RECURSIVE PartsFrom(_, _)
PartsFrom(r, n) ==
  IF n > Len(r) THEN <<>>
  ELSE PartsOf(r[n][1], r[n][2]) \o PartsFrom(r, n + 1)

text_from_row(r) == Lower(Join(PartsFrom(r, 1)))

(***************************************************************************)
(* classify                                                                *)
(***************************************************************************)
\* what a call of classify ends in: the pair it returns or the exception raised
Ok(sector, intensity) ==
  [kind |-> "ok", sector |-> sector, intensity |-> intensity, exc |-> "none"]
Raise(exc) ==
  [kind |-> "raise", sector |-> Absent, intensity |-> AbsentTier, exc |-> exc]

\* for intensity, keys in table.items(): if any(k in txt ...): return intensity
\* the tier returned by the loop from entry n on; AbsentTier if it falls through
RECURSIVE ScanFrom(_, _, _)
ScanFrom(table, txt, n) ==
  IF n > Len(table) THEN AbsentTier
  ELSE IF AnyIn(table[n][2], txt) THEN table[n][1]
  ELSE ScanFrom(table, txt, n + 1)

\* the loop without its early return: the last matching entry wins
RECURSIVE ScanAll(_, _, _, _)
ScanAll(table, txt, n, found) ==
  IF n > Len(table) THEN found
  ELSE ScanAll(table, txt, n + 1,
               IF AnyIn(table[n][2], txt) THEN table[n][1] ELSE found)

FirstTier_last_match(table, txt) == ScanAll(table, txt, 1, AbsentTier)

FirstTier(table, txt) == ScanFrom(table, txt, 1)

\* row.get("landuse"): None when the key is missing, the value when it occurs
\* once, a Series of the values when the label occurs more than once
Positions(r, key) == {n \in 1..Len(r) : r[n][1] = key}

\* Python truthiness of a scalar or list value
Falsy(v) ==
  \/ v.t = "none"
  \/ v.t = "str" /\ v.s = <<>>
  \/ v.t = "num" /\ v.s \in {<<"0">>, <<"0", ".", "0">>}
  \/ v.t = "list" /\ v.xs = <<>>

\* the fallback returning a sector without its intensity
Fallback_without_intensity(r) ==
  LET pos == Positions(r, "landuse") IN
  IF pos = {} THEN Ok(Absent, AbsentTier)
  ELSE IF Cardinality(pos) > 1 THEN Raise("ValueError")
  ELSE LET v == r[CHOOSE n \in pos : TRUE][2] IN
       IF Falsy(v) THEN Ok(Absent, AbsentTier)
       ELSE IF v.t # "str" THEN Raise("AttributeError")
       ELSE LET lu == Lower(v.s) IN
            IF lu = <<"i","n","d","u","s","t","r","i","a","l">> THEN Ok("industrial", AbsentTier)
            ELSE IF lu = <<"c","o","m","m","e","r","c","i","a","l">> THEN Ok("service", AbsentTier)
            ELSE Ok(Absent, AbsentTier)

\* the fallback of classify: lu = (row.get("landuse") or "").lower()
Fallback(r) ==
  LET pos == Positions(r, "landuse") IN
  IF pos = {} THEN Ok(Absent, AbsentTier)
  ELSE IF Cardinality(pos) > 1 THEN Raise("ValueError")
  ELSE LET v == r[CHOOSE n \in pos : TRUE][2] IN
       IF Falsy(v) THEN Ok(Absent, AbsentTier)
       ELSE IF v.t # "str" THEN Raise("AttributeError")
       ELSE LET lu == Lower(v.s) IN
            IF lu = <<"i","n","d","u","s","t","r","i","a","l">> THEN Ok("industrial", 2)
            ELSE IF lu = <<"c","o","m","m","e","r","c","i","a","l">> THEN Ok("service", 2)
            ELSE Ok(Absent, AbsentTier)

\* classify with the two tables evaluated in the opposite order
classify_service_first(r) ==
  LET txt == text_from_row(r)
      srv == FirstTier(RULES.service, txt)
  IN  IF srv # AbsentTier THEN Ok("service", srv)
      ELSE LET ind == FirstTier(RULES.industrial, txt) IN
           IF ind # AbsentTier THEN Ok("industrial", ind)
           ELSE Fallback(r)

classify(r) ==
  LET txt == text_from_row(r)
      ind == FirstTier(RULES.industrial, txt)
  IN  IF ind # AbsentTier THEN Ok("industrial", ind)
      ELSE LET srv == FirstTier(RULES.service, txt) IN
           IF srv # AbsentTier THEN Ok("service", srv)
           ELSE Fallback(r)

color_for(sector, intensity) ==
  IF sector = "service"
    THEN IF intensity \in DOMAIN BLUE THEN BLUE[intensity] ELSE BLUE[1]
  ELSE IF sector = "industrial"
    THEN IF intensity \in DOMAIN ORANGE THEN ORANGE[intensity] ELSE ORANGE[1]
  ELSE NEUTRAL

(***************************************************************************)
(* Rows handed to classify on its own                                      *)
(***************************************************************************)
KeyOrder == <<"landuse", "name", "shop">>

SampleValues ==
  { None, NaN, Num(<<"7">>),
    Str(<<"i","n","d","u","s","t","r","i","a","l">>), Str(<<"c","o","m","m","e","r","c","i","a","l">>), Str(<<"r","e","s","i","d","e","n","t","i","a","l">>),
    Str(<<"A","c","m","e"," ","S","t","e","e","l"," ","P","l","a","n","t">>), Str(<<"C","a","m","p","u","s"," ","W","o","r","k","s","h","o","p">>),
    Str(<<"J","o","e","'","s"," ","C","a","f","e">>), Str(<<"b","a","k","e","r","y">>), Str(<<"s","t","o","r","a","g","e">>),
    List(<<Str(<<"d","e","p","o","t">>), None>>) }

\* a row: each of the first MaxAttrs keys of KeyOrder missing or holding a value
RECURSIVE RowsFrom(_)
RowsFrom(n) ==
  IF n > MaxAttrs \/ n > Len(KeyOrder) THEN {<<>>}
  ELSE LET rest == RowsFrom(n + 1) IN
       rest \cup {<< <<KeyOrder[n], v>> >> \o r : v \in SampleValues, r \in rest}

SampleRows == RowsFrom(1)

NoRow == <<>>
NoResult ==
  [kind |-> "none", sector |-> Absent, intensity |-> AbsentTier, exc |-> "none"]

(***************************************************************************)
(* Data frames: an ordered list of column labels (labels may repeat) and   *)
(* rows of cells aligned with it; id is the identity of the feature.       *)
(***************************************************************************)
PyInt(n) == [t |-> "int", s |-> <<>>, xs |-> <<n>>]
Text(name) == [t |-> "str", s |-> <<name>>, xs |-> <<>>]
Wkt(g) == [t |-> "wkt", s |-> g.s, xs |-> <<>>]

Frame(columns, rows) == [columns |-> Tup(columns), rows |-> Tup(rows)]

\* gdf.empty: some axis has length 0
IsEmpty(gdf) == Len(gdf.columns) = 0 \/ Len(gdf.rows) = 0

\* c in gdf.columns
HasColumn(gdf, c) == \E k \in 1..Len(gdf.columns) : gdf.columns[k] = c

ColumnPos(gdf, c) == CHOOSE k \in 1..Len(gdf.columns) : gdf.columns[k] = c

\* row.items() of the n-th row
Items(gdf, n) ==
  Tup([k \in 1..Len(gdf.columns) |-> <<gdf.columns[k], gdf.rows[n].cells[k]>>])

\* gdf[keep] for a list of labels present in a frame with unique labels:
\* one output column per entry of keep, repeated entries included
Select(gdf, keep) ==
  Frame(keep,
        [n \in 1..Len(gdf.rows) |->
           [id |-> gdf.rows[n].id,
            cells |-> Tup([k \in 1..Len(keep) |->
                         gdf.rows[n].cells[ColumnPos(gdf, keep[k])]])]])

\* gdf[c] = values (one value per row): overwrite the column or append it
SetColumn(gdf, c, values) ==
  IF HasColumn(gdf, c)
    THEN Frame(gdf.columns,
               [n \in 1..Len(gdf.rows) |->
                  [id |-> gdf.rows[n].id,
                   cells |-> Tup([k \in 1..Len(gdf.columns) |->
                                IF gdf.columns[k] = c THEN values[n]
                                ELSE gdf.rows[n].cells[k]])]])
    ELSE Frame(Append(gdf.columns, c),
               [n \in 1..Len(gdf.rows) |->
                  [id |-> gdf.rows[n].id,
                   cells |-> Append(gdf.rows[n].cells, values[n])]])

\* gdf.drop(columns=c)
DropColumn(gdf, c) ==
  LET keepPos == SelectSeq(Tup([k \in 1..Len(gdf.columns) |-> k]),
                           LAMBDA k : gdf.columns[k] # c)
  IN  Frame([k \in 1..Len(keepPos) |-> gdf.columns[keepPos[k]]],
            [n \in 1..Len(gdf.rows) |->
               [id |-> gdf.rows[n].id,
                cells |-> Tup([k \in 1..Len(keepPos) |->
                             gdf.rows[n].cells[keepPos[k]]])]])

\* [c for c in allow if c in gdf.columns]
Present(allow, gdf) == SelectSeq(allow, LAMBDA c : HasColumn(gdf, c))

IsUnique(columns) ==
  \A j, k \in 1..Len(columns) : columns[j] = columns[k] => j = k

\* labels of b not in a, in b's order
NewLabels(a, b) ==
  SelectSeq(b, LAMBDA c : ~\E k \in 1..Len(a) : a[k] = c)

RECURSIVE UnionColumns(_, _)
UnionColumns(frames, n) ==
  IF n > Len(frames) THEN <<>>
  ELSE LET rest == UnionColumns(frames, n + 1) IN
       frames[n].columns \o NewLabels(frames[n].columns, rest)

RECURSIVE ConcatRows(_, _, _)
ConcatRows(frames, columns, n) ==
  IF n > Len(frames) THEN <<>>
  ELSE LET f == frames[n] IN
       [r \in 1..Len(f.rows) |->
          [id |-> f.rows[r].id,
           cells |-> Tup([k \in 1..Len(columns) |->
                        IF HasColumn(f, columns[k])
                          THEN f.rows[r].cells[ColumnPos(f, columns[k])]
                          ELSE NaN])]]
       \o ConcatRows(frames, columns, n + 1)

\* pd.concat(frames, ignore_index=True) raises InvalidIndexError when a frame
\* whose labels are not unique has to be reindexed to different labels
ConcatRaises(frames) ==
  /\ \E n \in 1..Len(frames) : frames[n].columns # frames[1].columns
  /\ \E n \in 1..Len(frames) : ~IsUnique(frames[n].columns)

\* the rows of the frames in list order, over the union of the labels, NaN
\* where a frame lacks a label
ConcatInOrder(frames) ==
  IF \A n \in 1..Len(frames) : frames[n].columns = frames[1].columns
    THEN Frame(frames[1].columns,
               LET RECURSIVE AllRows(_)
                   AllRows(n) == IF n > Len(frames) THEN <<>>
                                 ELSE frames[n].rows \o AllRows(n + 1)
               IN  AllRows(1))
    ELSE LET columns == UnionColumns(frames, 1)
         IN  Frame(columns, ConcatRows(frames, columns, 1))

\* a concatenation that takes the frames last to first
Concat_reversed(frames) ==
  ConcatInOrder([n \in 1..Len(frames) |-> frames[Len(frames) + 1 - n]])

\* pd.concat(frames, ignore_index=True)
Concat(frames) == ConcatInOrder(frames)

(***************************************************************************)
(* Map pipeline: load_landuse_from_github, enrich, save_outputs, plot      *)
(***************************************************************************)
\* the polygons of the layer, reduced to the allow-listed columns
load_landuse_from_github(src) ==
  LET polys == Frame(src.columns,
                     SelectSeq(src.rows, LAMBDA r :
                       r.cells[ColumnPos(src, "geometry")].s
                         \in {<<"Polygon">>, <<"MultiPolygon">>}))
      keep == Present(<<"landuse", "name">> \o ATTR_FIELDS, polys)
                \o <<"geometry">>
  IN  Select(polys, keep)

SectorCell(sector) ==
  IF sector = Absent THEN None
  ELSE IF sector = "industrial" THEN Str(<<"i","n","d","u","s","t","r","i","a","l">>)
  ELSE Str(<<"s","e","r","v","i","c","e">>)

CellSector(cell) ==
  IF cell.t # "str" THEN Absent
  ELSE IF cell.s = <<"i","n","d","u","s","t","r","i","a","l">> THEN "industrial"
  ELSE "service"

CellTier(cell) == IF cell.t = "int" THEN cell.xs[1] ELSE AbsentTier

\* the classify raises on some row of the frame
EnrichRaises(gdf) ==
  /\ ~IsEmpty(gdf)
  /\ \E n \in 1..Len(gdf.rows) : classify(Items(gdf, n)).kind = "raise"

\* enrich on a frame no row of which makes classify raise; a column of
\* intensities mixing integers and None is stored with NaN for None
enrich(gdf) ==
  IF IsEmpty(gdf)
    THEN Frame(gdf.columns \o <<"sector", "intensity", "fill">>, <<>>)
    ELSE LET pairs == Tup([n \in 1..Len(gdf.rows) |-> classify(Items(gdf, n))])
             mixed == \E n \in 1..Len(pairs) : pairs[n].intensity # AbsentTier
             g1 == SetColumn(gdf, "sector",
                     [n \in 1..Len(pairs) |-> SectorCell(pairs[n].sector)])
             g2 == SetColumn(g1, "intensity",
                     [n \in 1..Len(pairs) |->
                        IF pairs[n].intensity # AbsentTier
                          THEN PyInt(pairs[n].intensity)
                        ELSE IF mixed THEN NaN ELSE None])
         IN  SetColumn(g2, "fill",
               [n \in 1..Len(pairs) |->
                  Text(color_for(pairs[n].sector, pairs[n].intensity))])

\* re.sub(r"[^a-z0-9]+", "_", s.lower()).strip("_")
Alnum == LowerAlpha \o <<"0","1","2","3","4","5","6","7","8","9">>
IsAlnum(c) == \E i \in 1..Len(Alnum) : Alnum[i] = c

\* each maximal run of characters outside [a-z0-9] replaced by one "_"
SubRuns(cs) ==
  LET first == SelectSeq(Tup([n \in 1..Len(cs) |-> n]), LAMBDA n :
                 IsAlnum(cs[n]) \/ n = 1 \/ IsAlnum(cs[n - 1]))
  IN  Tup([k \in 1..Len(first) |->
             IF IsAlnum(cs[first[k]]) THEN cs[first[k]] ELSE "_"])

\* strip("_") of a string whose underscores do not repeat
Strip(cs) ==
  LET lo == IF Len(cs) > 0 /\ cs[1] = "_" THEN 2 ELSE 1
      hi == IF Len(cs) > 0 /\ cs[Len(cs)] = "_" THEN Len(cs) - 1 ELSE Len(cs)
  IN  SubSeq(cs, lo, hi)

slug(cs) == Strip(SubRuns(Lower(cs)))

OUT_DATA == <<"d","a","t","a">>
OUT_MAPS == <<"m","a","p","s">>

\* os.path.join(dir, f"{base}{ext}")
PathJoin(dir, base, ext) == dir \o <<"/">> \o base \o ext

\* a file system after writing path (files are overwritten)
Write(files, path, content) ==
  [p \in DOMAIN files \cup {path} |-> IF p = path THEN content ELSE files[p]]

NoFiles == [p \in {} |-> Frame(<<>>, <<>>)]

\* gdf.to_file is given a frame with a repeated column label: geopandas may
\* refuse it (ValueError, duplicated column names) or the driver may write it,
\* depending on the build; save_outputs reaches to_file only when not gdf.empty
ToFileMayRaise(gdf) == ~IsEmpty(gdf) /\ ~IsUnique(gdf.columns)

\* the outcomes of to_file on the frame: TRUE for raising
ToFileOutcomes(gdf) == IF ToFileMayRaise(gdf) THEN BOOLEAN ELSE {FALSE}

save_outputs(files, gdf, base) ==
  IF ~IsEmpty(gdf)
    THEN Write(Write(files, PathJoin(OUT_DATA, base, <<".","g","p","k","g">>), gdf),
               PathJoin(OUT_DATA, base, <<".","c","s","v">>), DropColumn(gdf, "geometry"))
    ELSE files

\* the image draws each geometry with its fill
plot_matplotlib(files, gdf, out_png) ==
  IF IsEmpty(gdf) THEN files
  ELSE Write(files, out_png, Select(gdf, <<"geometry", "fill">>))

\* a base name that does not depend on the city
MapBase_same_for_all(city) == <<"l","a","n","d","u","s","e","_","_","c","i","t","y">>

\* base = f"landuse__{slug(city)}"
MapBase(city) == <<"l","a","n","d","u","s","e","_","_">> \o slug(city)
MergedBase == <<"l","a","n","d","u","s","e","_","_","v","a","n","c","o","u","v","e","r","_","_","n","o","r","t","h","_","v","a","n","c","o","u","v","e","r">>

\* process_city after a successful load, up to the return of the frame
process_city_gdf(city, src) ==
  enrich(SetColumn(load_landuse_from_github(src), "city",
                   [n \in 1..Len(load_landuse_from_github(src).rows) |-> Str(city)]))

process_city_raises(city, src) ==
  EnrichRaises(SetColumn(load_landuse_from_github(src), "city",
                 [n \in 1..Len(load_landuse_from_github(src).rows) |-> Str(city)]))

process_city_files(files, city, gdf) ==
  plot_matplotlib(save_outputs(files, gdf, MapBase(city)), gdf,
                  PathJoin(OUT_MAPS, MapBase(city), <<".","p","n","g">>))

(***************************************************************************)
(* Source layers of the map pipeline                                       *)
(***************************************************************************)
SeqsUpTo(S, n) == UNION {[1..k -> S] : k \in 0..n}

Feature(tags, geom) == [tags |-> tags, geom |-> geom]

TagOf(f, key) ==
  IF \E n \in 1..Len(f.tags) : f.tags[n][1] = key
    THEN f.tags[CHOOSE n \in 1..Len(f.tags) : f.tags[n][1] = key][2]
    ELSE None

\* the layer a list of features is read as: one column per key some feature
\* carries, in the order of keyOrder, then geometry; None where a key is missing
LayerOf(features, keyOrder, city) ==
  LET keys == SelectSeq(keyOrder, LAMBDA c :
                \E n \in 1..Len(features) :
                  \E m \in 1..Len(features[n].tags) : features[n].tags[m][1] = c)
  IN  Frame(Append(keys, "geometry"),
            [n \in 1..Len(features) |->
               [id |-> <<city, n>>,
                cells |-> Tup([k \in 1..(Len(keys) + 1) |->
                             IF k <= Len(keys) THEN TagOf(features[n], keys[k])
                             ELSE Geom(<<features[n].geom>>)])]])

LanduseKeyOrder == <<"landuse", "name", "shop", "zoning">>

LandusePool ==
  { Feature(<< <<"landuse", Str(<<"r","e","s","i","d","e","n","t","i","a","l">>)>> >>, "Polygon"),
    Feature(<< <<"landuse", Str(<<"i","n","d","u","s","t","r","i","a","l">>)>>,
               <<"name", Str(<<"A","c","m","e"," ","S","t","e","e","l"," ","P","l","a","n","t">>)>> >>, "MultiPolygon"),
    Feature(<< <<"shop", Str(<<"b","a","k","e","r","y">>)>>,
               <<"zoning", Str(<<"C","-","2">>)>> >>, "Polygon"),
    Feature(<< <<"landuse", Str(<<"c","o","m","m","e","r","c","i","a","l">>)>> >>, "Point") }

(***************************************************************************)
(* Export pipeline: slugify, to_csv_with_wkt, export_layer                 *)
(***************************************************************************)
\* str.replace("__", "_"): non-overlapping pairs, left to right, so of a run of
\* underscores the 1st, 3rd, ... are kept
ReplaceDouble(cs) ==
  LET Offset(n) == n - (CHOOSE m \in 0..(n - 1) :
                          /\ m = 0 \/ cs[m] # "_"
                          /\ \A l \in (m + 1)..(n - 1) : cs[l] = "_")
      kept == SelectSeq(Tup([n \in 1..Len(cs) |-> n]), LAMBDA n :
                cs[n] # "_" \/ Offset(n) % 2 = 1)
  IN  Tup([k \in 1..Len(kept) |-> cs[kept[k]]])

\* text.lower().replace(" ", "_").replace(",", "").replace("__", "_")
slugify(text) ==
  LET low == Lower(text)
      spaced == Tup([n \in 1..Len(low) |-> IF low[n] = " " THEN "_" ELSE low[n]])
  IN  ReplaceDouble(SelectSeq(spaced, LAMBDA c : c # ","))

OUT_DIR == <<"d","a","t","a">>

\* to_csv_with_wkt: the frame with its geometry as well-known text, written
\* whatever the number of rows
to_csv_with_wkt(files, gdf, csv_path) ==
  Write(files, csv_path,
        SetColumn(gdf, "geometry",
                  [n \in 1..Len(gdf.rows) |->
                     Wkt(gdf.rows[n].cells[ColumnPos(gdf, "geometry")])]))

export_layer(files, gdf, base_name) ==
  to_csv_with_wkt(files, gdf, PathJoin(OUT_DIR, base_name, <<".","c","s","v">>))

\* lu[keep_lu] and lu["city"] = city
ProjectLanduse(lu, city) ==
  LET kept == Select(lu, Present(<<"landuse", "name", "geometry">>, lu))
  IN  SetColumn(kept, "city", [n \in 1..Len(kept.rows) |-> Str(city)])

\* bld[keep_bld] and bld["city"] = city
ProjectBuildings(bld, city) ==
  LET kept == Select(bld, Present(<<"building", "name", "addr:housenumber",
                                    "addr:street", "height", "levels",
                                    "geometry">>, bld))
  IN  SetColumn(kept, "city", [n \in 1..Len(kept.rows) |-> Str(city)])

ExportLanduseKeyOrder == <<"landuse", "name", "source">>

ExportLandusePool ==
  { Feature(<< <<"landuse", Str(<<"r","e","s","i","d","e","n","t","i","a","l">>)>>,
               <<"name", Str(<<"M","o","l","e"," ","H","i","l","l">>)>>,
               <<"source", Str(<<"b","i","n","g">>)>> >>, "Polygon"),
    Feature(<< <<"landuse", Str(<<"g","r","a","s","s">>)>> >>, "Point") }

BuildingKeyOrder ==
  <<"building", "name", "addr:street", "height", "roof:shape">>

BuildingPool ==
  { Feature(<< <<"building", Str(<<"y","e","s">>)>>,
               <<"height", Num(<<"1","2">>)>>,
               <<"roof:shape", Str(<<"f","l","a","t">>)>> >>, "Polygon"),
    Feature(<< <<"building", Str(<<"h","o","u","s","e">>)>>,
               <<"addr:street", Str(<<"M","a","i","n"," ","S","t","r","e","e","t">>)>> >>, "MultiPolygon") }

ExportMergedLanduse == <<"l","a","n","d","u","s","e","_","_","v","a","n","c","o","u","v","e","r","_","_","n","o","r","t","h","_","v","a","n","c","o","u","v","e","r">>
ExportMergedBuildings == <<"b","u","i","l","d","i","n","g","s","_","_","v","a","n","c","o","u","v","e","r","_","_","n","o","r","t","h","_","v","a","n","c","o","u","v","e","r">>

(***************************************************************************)
(* Initial state and the actions                                           *)
(***************************************************************************)
Init ==
  /\ prog \in {"classify", "map", "export"}
  /\ row = NoRow
  /\ result = NoResult
  /\ mpc = "loop" /\ mi = 1 /\ all_gdfs = <<>> /\ mfiles = NoFiles /\ msrc = <<>>
  /\ epc = "loop" /\ ei = 1 /\ all_landuse = <<>> /\ all_buildings = <<>>
  /\ efiles = NoFiles /\ esrc = <<>>

\* one call classify(row) on a row of the caller's choice
Classify ==
  /\ prog = "classify"
  /\ result.kind = "none"
  /\ \E r \in SampleRows :
       /\ row' = r
       /\ result' = classify(r)
  /\ UNCHANGED <<prog, mapVars, exportVars>>

\* one iteration of the loop of main: process_city on the layer the URL
\* serves, then the append of a non-empty result; an exception raised by
\* classify or by to_file leaves main
MapCity ==
  /\ prog = "map"
  /\ mpc = "loop"
  /\ \E features \in SeqsUpTo(LandusePool, MaxRows) :
       LET city == LANDUSE_URLS[mi]
           src == LayerOf(features, LanduseKeyOrder, mi)
       IN  /\ msrc' = Append(msrc, src)
           /\ IF process_city_raises(city, src)
                THEN /\ mpc' = "aborted"
                     /\ UNCHANGED <<mi, all_gdfs, mfiles>>
                ELSE LET g == process_city_gdf(city, src) IN
                     \E refused \in ToFileOutcomes(g) :
                       IF refused
                         THEN /\ mpc' = "aborted"
                              /\ UNCHANGED <<mi, all_gdfs, mfiles>>
                         ELSE /\ mfiles' = process_city_files(mfiles, city, g)
                              /\ all_gdfs' = IF ~IsEmpty(g)
                                               THEN Append(all_gdfs, g)
                                               ELSE all_gdfs
                              /\ mi' = mi + 1
                              /\ mpc' = IF mi = Len(LANDUSE_URLS)
                                          THEN "merge" ELSE "loop"
  /\ UNCHANGED <<prog, classifyVars, exportVars>>

\* gpd.read_file raises (URL not served, layer missing): main does not catch
MapCityFails ==
  /\ prog = "map"
  /\ mpc = "loop"
  /\ mpc' = "aborted"
  /\ UNCHANGED <<prog, mi, all_gdfs, mfiles, msrc, classifyVars, exportVars>>

\* the merge of main
MapMerge ==
  /\ prog = "map"
  /\ mpc = "merge"
  /\ IF all_gdfs = <<>>
       THEN mpc' = "done" /\ UNCHANGED mfiles
       ELSE IF ConcatRaises(all_gdfs)
         THEN mpc' = "aborted" /\ UNCHANGED mfiles
         ELSE LET all_ == Concat(all_gdfs) IN
              \E refused \in ToFileOutcomes(all_) :
                IF refused
                  THEN mpc' = "aborted" /\ UNCHANGED mfiles
                  ELSE /\ mfiles' = plot_matplotlib(
                                      save_outputs(mfiles, all_, MergedBase),
                                      all_,
                                      PathJoin(OUT_MAPS, MergedBase, <<".","p","n","g">>))
                       /\ mpc' = "done"
  /\ UNCHANGED <<prog, mi, all_gdfs, msrc, classifyVars, exportVars>>

\* one iteration of the loop of main of the export script
ExportCity ==
  /\ prog = "export"
  /\ epc = "loop"
  /\ \E luFeatures \in SeqsUpTo(ExportLandusePool, MaxRows),
        bldFeatures \in SeqsUpTo(BuildingPool, MaxBld) :
       LET city == CITIES[ei]
           city_slug == slugify(city)
           lu_src == LayerOf(luFeatures, ExportLanduseKeyOrder, ei)
           bld_src == LayerOf(bldFeatures, BuildingKeyOrder, ei)
           lu == ProjectLanduse(lu_src, city)
           bld == ProjectBuildings(bld_src, city)
       IN  /\ esrc' = Append(esrc, [lu |-> lu_src, bld |-> bld_src])
           /\ efiles' = export_layer(
                          export_layer(efiles, lu, <<"l","a","n","d","u","s","e","_","_">> \o city_slug),
                          bld, <<"b","u","i","l","d","i","n","g","s","_","_">> \o city_slug)
           /\ all_landuse' = Append(all_landuse, lu)
           /\ all_buildings' = Append(all_buildings, bld)
  /\ ei' = ei + 1
  /\ epc' = IF ei = Len(CITIES) THEN "merge" ELSE "loop"
  /\ UNCHANGED <<prog, classifyVars, mapVars>>

\* fetch_boundary or the land-use fetch raises: main does not catch
ExportFetchFails ==
  /\ prog = "export"
  /\ epc = "loop"
  /\ epc' = "aborted"
  /\ UNCHANGED <<prog, ei, all_landuse, all_buildings, efiles, esrc,
                 classifyVars, mapVars>>

\* the buildings fetch raises after the land use of the city was exported
ExportBuildingsFails ==
  /\ prog = "export"
  /\ epc = "loop"
  /\ \E luFeatures \in SeqsUpTo(ExportLandusePool, MaxRows) :
       LET city == CITIES[ei]
           lu_src == LayerOf(luFeatures, ExportLanduseKeyOrder, ei)
           lu == ProjectLanduse(lu_src, city)
       IN  /\ esrc' = Append(esrc, [lu |-> lu_src, bld |-> Frame(<<>>, <<>>)])
           /\ efiles' = export_layer(efiles, lu, <<"l","a","n","d","u","s","e","_","_">> \o slugify(city))
           /\ all_landuse' = Append(all_landuse, lu)
  /\ epc' = "aborted"
  /\ UNCHANGED <<prog, ei, all_buildings, classifyVars, mapVars>>

\* the merge of main of the export script
ExportMerge ==
  /\ prog = "export"
  /\ epc = "merge"
  /\ efiles' =
       LET f1 == IF all_landuse # <<>>
                   THEN export_layer(efiles, Concat(all_landuse),
                                     ExportMergedLanduse)
                   ELSE efiles
       IN  IF all_buildings # <<>>
             THEN export_layer(f1, Concat(all_buildings), ExportMergedBuildings)
             ELSE f1
  /\ epc' = "done"
  /\ UNCHANGED <<prog, ei, all_landuse, all_buildings, esrc,
                 classifyVars, mapVars>>

Next ==
  \/ Classify
  \/ MapCity
  \/ MapCityFails
  \/ MapMerge
  \/ ExportCity
  \/ ExportFetchFails
  \/ ExportBuildingsFails
  \/ ExportMerge

Spec == Init /\ [][Next]_vars

(***************************************************************************)
(* Vocabulary of the properties                                            *)
(***************************************************************************)
\* the keyword list of a tier, whatever its place in the table
KeysOf(table, tier) ==
  table[CHOOSE n \in 1..Len(table) : table[n][1] = tier][2]

\* some keyword of the tier of the sector occurs in the text of the row
Hits(sector, tier, r) == AnyIn(KeysOf(RULES[sector], tier), text_from_row(r))

NoHit(r) ==
  \A sector \in {"industrial", "service"}, tier \in 1..4 : ~Hits(sector, tier, r)

Classified == result.kind # "none"

\* the landuse attribute of a mapping with unique keys, None when missing
LanduseOf(r) ==
  IF Positions(r, "landuse") = {} THEN None
  ELSE r[CHOOSE n \in Positions(r, "landuse") : TRUE][2]

LanduseIs(r, name) ==
  LanduseOf(r).t = "str" /\ Lower(LanduseOf(r).s) = name

(***************************************************************************)
(* C1                                                                      *)
(***************************************************************************)
\* C1 as stated: whenever the text of the row holds a service tier-4 keyword
\* and an industrial tier-2 keyword, classify returns ("industrial", 2).
C1_Industrial2Always ==
  (Classified /\ Hits("service", 4, row) /\ Hits("industrial", 2, row))
    => result = Ok("industrial", 2)

\* C1 amended: whenever the text of the row holds a service tier-4 keyword and
\* an industrial tier-2 keyword, classify returns sector "industrial", and
\* intensity 2 unless an industrial tier-4 or tier-3 keyword occurs as well.
C1_IndustrialPrecedence ==
  (Classified /\ Hits("service", 4, row) /\ Hits("industrial", 2, row))
    => /\ result.kind = "ok"
       /\ result.sector = "industrial"
       /\ (~Hits("industrial", 4, row) /\ ~Hits("industrial", 3, row))
            => result.intensity = 2

C1_Witness ==
  /\ Classified
  /\ Hits("service", 4, row) /\ Hits("industrial", 2, row)
  /\ ~Hits("industrial", 4, row) /\ ~Hits("industrial", 3, row)
  /\ result = Ok("industrial", 2)

(***************************************************************************)
(* C2                                                                      *)
(***************************************************************************)
\* C2: a row whose text holds an industrial tier-4 and an industrial tier-1
\* keyword is classified ("industrial", 4), and classify never returns a tier
\* below a tier of the returned sector that has a keyword in the text.
C2_HighestTierWins ==
  Classified =>
    /\ (Hits("industrial", 4, row) /\ Hits("industrial", 1, row))
         => result = Ok("industrial", 4)
    /\ (result.kind = "ok" /\ result.sector # Absent)
         => \A tier \in 1..4 :
              Hits(result.sector, tier, row) => result.intensity >= tier

C2_Witness ==
  /\ Classified
  /\ Hits("industrial", 4, row) /\ Hits("industrial", 1, row)
  /\ result = Ok("industrial", 4)

(***************************************************************************)
(* C3                                                                      *)
(***************************************************************************)
\* C3: a row whose text holds no keyword of either table is classified
\* ("industrial", 2) when its landuse is "industrial", ("service", 2) when it
\* is "commercial", and (absent, absent) for any other or a missing landuse.
C3_LanduseFallback ==
  (Classified /\ NoHit(row)) =>
    result = IF LanduseIs(row, <<"i","n","d","u","s","t","r","i","a","l">>) THEN Ok("industrial", 2)
             ELSE IF LanduseIs(row, <<"c","o","m","m","e","r","c","i","a","l">>) THEN Ok("service", 2)
             ELSE Ok(Absent, AbsentTier)

(***************************************************************************)
(* C4                                                                      *)
(***************************************************************************)
\* C4: classify returns a result pair, it never raises, for every row whose
\* values are absent, null/NaN, strings, numbers or lists of these.
C4_NeverRaises == Classified => result.kind = "ok"

(***************************************************************************)
(* C5                                                                      *)
(***************************************************************************)
Populated(cell) == ~IsNa(cell)

EnrichedFrames ==
  {all_gdfs[i] : i \in 1..Len(all_gdfs)} \cup {mfiles[p] : p \in DOMAIN mfiles}

\* C5: the intensity is populated iff the sector is; a populated sector is
\* "industrial" or "service" and a populated intensity an integer in 1..4.
\* It holds of the pair classify returns and of every enriched row.
C5_IntensityIffSector ==
  /\ result.kind = "ok" =>
       /\ result.sector = Absent <=> result.intensity = AbsentTier
       /\ result.sector \in {"industrial", "service", Absent}
       /\ result.intensity \in 1..4 \cup {AbsentTier}
  /\ \A g \in EnrichedFrames :
       HasColumn(g, "sector") =>
         \A n \in 1..Len(g.rows) :
           LET sec == g.rows[n].cells[ColumnPos(g, "sector")]
               int == g.rows[n].cells[ColumnPos(g, "intensity")]
           IN  /\ Populated(sec) <=> Populated(int)
               /\ Populated(sec) =>
                    sec \in {Str(<<"i","n","d","u","s","t","r","i","a","l">>), Str(<<"s","e","r","v","i","c","e">>)}
               /\ Populated(int) => int \in {PyInt(i) : i \in 1..4}

C5_Witness ==
  /\ mpc = "done"
  /\ \E i \in 1..Len(all_gdfs) : \E n \in 1..Len(all_gdfs[i].rows) :
       LET g == all_gdfs[i] IN
       /\ g.rows[n].cells[ColumnPos(g, "sector")] = Str(<<"i","n","d","u","s","t","r","i","a","l">>)
       /\ g.rows[n].cells[ColumnPos(g, "intensity")] = PyInt(4)

(***************************************************************************)
(* Artifacts                                                               *)
(***************************************************************************)
EmptyFrame == Frame(<<>>, <<>>)

FileOr(files, path) == IF path \in DOMAIN files THEN files[path] ELSE EmptyFrame

MapCityGpkg(i) == PathJoin(OUT_DATA, MapBase(LANDUSE_URLS[i]), <<".","g","p","k","g">>)
MapMergedGpkg == PathJoin(OUT_DATA, MergedBase, <<".","g","p","k","g">>)
MapMergedCsv == PathJoin(OUT_DATA, MergedBase, <<".","c","s","v">>)

ExportCityCsv(kind, i) ==
  PathJoin(OUT_DIR, kind \o slugify(CITIES[i]), <<".","c","s","v">>)
ExportMergedLanduseCsv == PathJoin(OUT_DIR, ExportMergedLanduse, <<".","c","s","v">>)
ExportMergedBuildingsCsv == PathJoin(OUT_DIR, ExportMergedBuildings, <<".","c","s","v">>)

RECURSIVE RowsBefore(_, _)
RowsBefore(parts, i) ==
  IF i = 1 THEN 0 ELSE RowsBefore(parts, i - 1) + Len(parts[i - 1].rows)

\* every cell of the row crow of the frame part is in the row mrow of merged,
\* under the same label
RowKept(merged, mrow, part, crow) ==
  \A k \in 1..Len(part.columns) :
    \E j \in 1..Len(merged.columns) :
      /\ merged.columns[j] = part.columns[k]
      /\ mrow.cells[j] = crow.cells[k]

\* merged is the rows of parts[1], then of parts[2], ..., each exactly once
IsConcatOf(merged, parts) ==
  /\ Len(merged.rows) = RowsBefore(parts, Len(parts) + 1)
  /\ \A i \in 1..Len(parts) : \A n \in 1..Len(parts[i].rows) :
       LET m == RowsBefore(parts, i) + n IN
       /\ merged.rows[m].id = parts[i].rows[n].id
       /\ RowKept(merged, merged.rows[m], parts[i], parts[i].rows[n])
  /\ \A m1, m2 \in 1..Len(merged.rows) :
       merged.rows[m1].id = merged.rows[m2].id => m1 = m2

(***************************************************************************)
(* C6                                                                      *)
(***************************************************************************)
\* C6: exporting an empty collection leaves no geometry-bearing file: no
\* file written by either pipeline holds a geometry column and no row.
C6_EmptyLeavesNoGeometryFile ==
  /\ \A p \in DOMAIN mfiles :
       HasColumn(mfiles[p], "geometry") => Len(mfiles[p].rows) > 0
  /\ \A p \in DOMAIN efiles :
       HasColumn(efiles[p], "geometry") => Len(efiles[p].rows) > 0

(***************************************************************************)
(* C7                                                                      *)
(***************************************************************************)
MapParts == [i \in 1..Len(LANDUSE_URLS) |-> FileOr(mfiles, MapCityGpkg(i))]
LanduseParts ==
  [i \in 1..Len(CITIES) |-> FileOr(efiles, ExportCityCsv(<<"l","a","n","d","u","s","e","_","_">>, i))]
BuildingParts ==
  [i \in 1..Len(CITIES) |-> FileOr(efiles, ExportCityCsv(<<"b","u","i","l","d","i","n","g","s","_","_">>, i))]

\* C7: once the merge has run, the merged collection is the per-municipality
\* results one after the other in processing order: every row exactly once,
\* and as many rows as the per-city results have together.
C7_MergeIsConcatenation ==
  /\ (mpc = "done" /\ all_gdfs # <<>>) =>
       /\ MapMergedGpkg \in DOMAIN mfiles
       /\ IsConcatOf(mfiles[MapMergedGpkg], MapParts)
  /\ epc = "done" =>
       /\ ExportMergedLanduseCsv \in DOMAIN efiles
       /\ IsConcatOf(efiles[ExportMergedLanduseCsv], LanduseParts)
       /\ ExportMergedBuildingsCsv \in DOMAIN efiles
       /\ IsConcatOf(efiles[ExportMergedBuildingsCsv], BuildingParts)

C7_Witness ==
  /\ mpc = "done"
  /\ MapMergedGpkg \in DOMAIN mfiles
  /\ Len(MapParts[1].rows) > 0 /\ Len(MapParts[2].rows) > 0
  /\ Len(mfiles[MapMergedGpkg].rows)
       = Len(MapParts[1].rows) + Len(MapParts[2].rows)

(***************************************************************************)
(* C8                                                                      *)
(***************************************************************************)
\* C8 as stated: in a run that has ended, by an error or not, with a
\* municipality that succeeded, the merged artifacts have been written.
C8_MergeDespiteError ==
  /\ (mpc \in {"done", "aborted"} /\ all_gdfs # <<>>)
       => MapMergedGpkg \in DOMAIN mfiles
  /\ (epc \in {"done", "aborted"} /\ ei > 1)
       => ExportMergedLanduseCsv \in DOMAIN efiles

KeptFiles(before, after) ==
  \A p \in DOMAIN before : p \in DOMAIN after /\ after[p] = before[p]

IsPrefix(before, after) ==
  Len(before) <= Len(after) /\ SubSeq(after, 1, Len(before)) = before

Gathered ==
  /\ KeptFiles(mfiles, mfiles') /\ IsPrefix(all_gdfs, all_gdfs')
  /\ KeptFiles(efiles, efiles')
  /\ IsPrefix(all_landuse, all_landuse')
  /\ IsPrefix(all_buildings, all_buildings')

\* C8 amended: an error stops the run (nothing is caught). No step, failing
\* or not, changes an artifact already written or a result already gathered;
\* a run stopped by an error has written no merged artifact, and a run that
\* ends without error has written them (the map pipeline when some
\* municipality gave a non-empty result).
C8_FailStop ==
  /\ [][Gathered]_vars
  /\ [](/\ mpc = "aborted" => MapMergedGpkg \notin DOMAIN mfiles
        /\ (mpc = "done" /\ all_gdfs # <<>>) => MapMergedGpkg \in DOMAIN mfiles
        /\ epc = "aborted" =>
             /\ ExportMergedLanduseCsv \notin DOMAIN efiles
             /\ ExportMergedBuildingsCsv \notin DOMAIN efiles
        /\ epc = "done" =>
             /\ ExportMergedLanduseCsv \in DOMAIN efiles
             /\ ExportMergedBuildingsCsv \in DOMAIN efiles)

C8_Witness ==
  /\ mpc = "aborted"
  /\ mi = 2
  /\ Len(all_gdfs) = 1
  /\ MapCityGpkg(1) \in DOMAIN mfiles
  /\ MapMergedGpkg \notin DOMAIN mfiles

(***************************************************************************)
(* C9                                                                      *)
(***************************************************************************)
LabelsOf(columns) == {columns[k] : k \in 1..Len(columns)}

\* columns is each label of allow that src has, once, and geometry
IsProjection(columns, allow, src) ==
  /\ IsUnique(columns)
  /\ LabelsOf(columns)
       = {c \in LabelsOf(allow) : HasColumn(src, c)} \cup {"geometry"}

\* C9: the projection of a source layer has exactly the allow-listed keys the
\* layer has, each once, and geometry; in the map pipeline and in both
\* selections of the export pipeline.
C9_ProjectionIsIntersection ==
  /\ \A i \in 1..Len(msrc) :
       IsProjection(load_landuse_from_github(msrc[i]).columns,
                    <<"landuse", "name">> \o ATTR_FIELDS, msrc[i])
  /\ \A i \in 1..Len(all_landuse) :
       IsProjection(DropColumn(all_landuse[i], "city").columns,
                    <<"landuse", "name", "geometry">>, esrc[i].lu)
  /\ \A i \in 1..Len(all_buildings) :
       IsProjection(DropColumn(all_buildings[i], "city").columns,
                    <<"building", "name", "addr:housenumber", "addr:street",
                      "height", "levels", "geometry">>, esrc[i].bld)

(***************************************************************************)
(* C10                                                                     *)
(***************************************************************************)
\* the attribute mapping of the n-th feature of an enriched frame: its
\* columns other than the city label and the enrichment, each key once
AttrsOf(g, n) ==
  LET pos == SelectSeq(Tup([k \in 1..Len(g.columns) |-> k]), LAMBDA k :
               /\ g.columns[k] \notin {"city", "sector", "intensity", "fill"}
               /\ \A j \in 1..(k - 1) : g.columns[j] # g.columns[k])
  IN  Tup([k \in 1..Len(pos) |-> <<g.columns[pos[k]], g.rows[n].cells[pos[k]]>>])

\* C10: the sector, intensity and fill process_city gives a feature are those
\* classify and color_for give its attributes without the city label.
C10_CityLabelHasNoInfluence ==
  \A i \in 1..Len(all_gdfs) : \A n \in 1..Len(all_gdfs[i].rows) :
    LET g == all_gdfs[i]
        c == classify(AttrsOf(g, n))
    IN  c.kind = "ok" =>
          /\ CellSector(g.rows[n].cells[ColumnPos(g, "sector")]) = c.sector
          /\ CellTier(g.rows[n].cells[ColumnPos(g, "intensity")]) = c.intensity
          /\ g.rows[n].cells[ColumnPos(g, "fill")]
               = Text(color_for(c.sector, c.intensity))

====
